---- MODULE Spec2Model ----
(***************************************************************************)
(* Model of the self-healing agent, src/greenops-agent/self_heal.py:       *)
(* the bounded event log (add_event), the /status read (status), the       *)
(* failure classifier (_safe_get_container_reason), the suggestion         *)
(* (suggest_fix) and the pod watcher with its backoff loop (watch_pods).   *)
(*                                                                         *)
(* Two threads run: the watcher (threading.Thread, line 102) and the       *)
(* Flask handler of /status (line 104).  EVENTS is shared and unlocked.    *)
(* The watcher's steps are split where another thread can observe the      *)
(* difference: between list.append (line 19) and the cap (lines 21-22).    *)
(* jsonify(EVENTS) walks the list by index, re-reading its length.         *)
(***************************************************************************)
EXTENDS Integers, Sequences, FiniteSets, TLC

\* ------------------------------------------------------------ bounds
\* Capacity of the log.  The source sets 500 (line 15); the model scales it
\* so that eviction happens within the explored runs.
EVENTS_MAX == 2
\* Notifications and stream errors in one run of Spec; MaxNotifs also in
\* one run of BackoffSpec.
MaxNotifs == 1
MaxFails == 1
\* Notifications and stream errors in one run of WatcherSpec.
WatchNotifs == 2
WatchFails == 2
\* Stream errors in one run of BackoffSpec.
MaxStreak == 8
\* add_event calls in one run of LogSpec.
MaxAppends == 5
\* Containers per pod in the notifications of the watcher specifications.
MaxContainers == 2
\* Seconds the wall clock advances in one run of LogSpec.
MaxTime == 1

\* ------------------------------------------------------------ constants
BACKOFF_START == 1
BACKOFF_CAP == 60
NAMESPACE == "boutique"

\* ------------------------------------------------------------ values
\* Python's None and an object reference, as sequences of length 0 and 1.
None == <<>>
Some(x) == <<x>>
Get(o) == o[1]

Min(a, b) == IF a < b THEN a ELSE b

\* str(x) inside an f-string: None prints as "None".
Str(o) == IF o = None THEN "None" ELSE Get(o)

\* ------------------------------------------------------------ pods
Waiting(r) == [waiting |-> Some([reason |-> r]), terminated |-> None]
Terminated(r) == [waiting |-> None, terminated |-> Some([reason |-> r])]
Running == [waiting |-> None, terminated |-> None]
Container(st) == [state |-> Some(st)]

\* Container statuses the stream delivers: the two actionable reasons and
\* one that is not.
StreamStatuses ==
  { Container(Waiting(Some("CrashLoopBackOff"))),
    Container(Terminated(Some("OOMKilled"))),
    Container(Waiting(Some("ImagePullBackOff"))) }

RECURSIVE SeqsUpTo(_, _)
SeqsUpTo(S, n) ==
  IF n = 0 THEN {<<>>}
  ELSE LET shorter == SeqsUpTo(S, n - 1)
       IN shorter \cup {Append(s, x) : s \in {t \in shorter : Len(t) = n - 1}, x \in S}

\* pod.metadata: a named pod, and a pod whose metadata is missing.
StreamMetas == {Some([name |-> Some("p1")]), None}

StreamPods ==
  { [metadata |-> m, status |-> Some([container_statuses |-> Some(cs)])] :
      m \in StreamMetas, cs \in SeqsUpTo(StreamStatuses, MaxContainers) \ {<<>>} }

\* event.get('object') is None for a notification without a pod.
StreamEvents == {[object |-> None]} \cup {[object |-> Some(p)] : p \in StreamPods}

\* The notifications of the specifications that do not study the
\* notifications: no pod, and a pod p1 with one container pulling its image
\* and one crash-looping.
FewEvents ==
  { [object |-> None],
    [object |-> Some([metadata |-> Some([name |-> Some("p1")]),
                      status |-> Some([container_statuses |->
                        Some(<<Container(Waiting(Some("ImagePullBackOff"))),
                               Container(Waiting(Some("CrashLoopBackOff")))>>)])])] }

\* The notifications a specification's stream draws from, by name.
EventsOf(which) == IF which = "few" THEN FewEvents ELSE StreamEvents

\* Exceptions the stream iterator raises, and those delete_namespaced_pod raises.
StreamErrors == {"ConnectionReset", "Forbidden"}
DeleteErrors == {"NotFound", "Forbidden"}

\* ------------------------------------------------------------ pure functions
\* suggest_fix, lines 29-33.  A text is the sequence of its pieces.
suggest_fix_unavailable(use_gemini, pod_name, reason) ==
  IF use_gemini
  THEN <<"Gemini unavailable">>
  ELSE <<"Mock fix: restart pod ", Str(pod_name), " for reason ", reason, ".">>
suggest_fix(use_gemini, pod_name, reason) ==
  IF use_gemini
  THEN <<"Gemini suggests restarting pod ", Str(pod_name), " due to ", reason, ".">>
  ELSE <<"Mock fix: restart pod ", Str(pod_name), " for reason ", reason, ".">>

\* Python truthiness of a reason: None and "" are false.
Truthy(r) == r # None /\ Get(r) # ""

\* One container's contribution, lines 41-50.
ContainerReasonWaitingWins(s) ==
  IF s.state = None THEN <<>>
  ELSE IF Get(s.state).waiting # None
  THEN (IF Truthy(Get(Get(s.state).waiting).reason)
        THEN <<Get(Get(Get(s.state).waiting).reason)>> ELSE <<>>)
  ELSE IF Get(s.state).terminated # None
          /\ Truthy(Get(Get(s.state).terminated).reason)
  THEN <<Get(Get(Get(s.state).terminated).reason)>>
  ELSE <<>>
ContainerReasonBoth(s) ==
  IF s.state = None THEN <<>>
  ELSE (IF Get(s.state).waiting # None /\ Truthy(Get(Get(s.state).waiting).reason)
        THEN <<Get(Get(Get(s.state).waiting).reason)>> ELSE <<>>)
       \o (IF Get(s.state).terminated # None
               /\ Truthy(Get(Get(s.state).terminated).reason)
            THEN <<Get(Get(Get(s.state).terminated).reason)>> ELSE <<>>)
ContainerReason(s) ==
  IF s.state = None THEN <<>>
  ELSE LET state == Get(s.state)
           waiting == state.waiting
           terminated == state.terminated
       IN IF waiting # None /\ Truthy(Get(waiting).reason)
          THEN <<Get(Get(waiting).reason)>>
          ELSE IF terminated # None /\ Truthy(Get(terminated).reason)
          THEN <<Get(Get(terminated).reason)>>
          ELSE <<>>

RECURSIVE ReasonsOf(_)
ReasonsOf(statuses) ==
  IF statuses = <<>> THEN <<>>
  ELSE ContainerReason(Head(statuses)) \o ReasonsOf(Tail(statuses))

\* _safe_get_container_reason, lines 35-53.  pod.status None raises
\* AttributeError at line 39, caught at line 51 with reasons still empty.
safe_get_container_reason(p) ==
  IF p.status = None THEN <<>>
  ELSE LET cs == Get(p.status).container_statuses
       IN ReasonsOf(IF cs = None THEN <<>> ELSE Get(cs))

\* Line 39 raises AttributeError for a pod whose status is None; line 51
\* catches every Exception.
ParseErrors == {"AttributeError"}
BodyRaises(p) == p.status = None
CaughtParsing(e) == e \in ParseErrors

\* Line 82.
ActionableAnyReason(reason) == reason # ""
ActionableExceptOOM(reason) == reason # "OOMKilled"
ActionableBackOff(reason) == reason \in {"CrashLoopBackOff", "ImagePullBackOff"}
Actionable(reason) == reason \in {"CrashLoopBackOff", "OOMKilled"}

\* getattr(pod.metadata, "name", "unknown"), line 83: the default is used
\* when metadata has no attribute name (metadata is None).
PodName(p) == IF p.metadata = None THEN Some("unknown") ELSE Get(p.metadata).name

\* Line 86.
ShouldApplyAlways(auto_apply) == TRUE
ShouldApplyInverted(auto_apply) == ~auto_apply
ShouldApply(auto_apply) == auto_apply

\* except Exception, lines 94 and 90: every error of the model is an Exception.
CaughtNone(e) == FALSE
CaughtApiOnly(e) == e \in {"Forbidden", "NotFound"}
CaughtNotForbidden(e) == e \in {"ConnectionReset", "NotFound"}
Caught(e) == e \in StreamErrors \cup DeleteErrors

\* Line 98.
NextBackoffNoCap(b) == b * 2
NextBackoffSame(b) == b
NextBackoffLinear(b) == Min(b + 1, BACKOFF_CAP)
NextBackoff(b) == Min(b * 2, BACKOFF_CAP)

\* Line 93.
BackoffKept(b) == b
BackoffHalved(b) == IF b > 1 THEN b \div 2 ELSE 1
BackoffAfterEnd(b) == BACKOFF_START

\* Lines 21-22: del EVENTS[0 : len(EVENTS) - EVENTS_MAX].
CappedKeepOldest(ev) == IF Len(ev) > EVENTS_MAX THEN SubSeq(ev, 1, EVENTS_MAX) ELSE ev
Capped(ev) ==
  IF Len(ev) > EVENTS_MAX
  THEN SubSeq(ev, Len(ev) - EVENTS_MAX + 1, Len(ev))
  ELSE ev

\* The messages, as sequences of their pieces.
MsgConfigFailedAsStart(e) == <<"Starting pod watcher...">>
MsgConfigFailed(e) == <<"Failed to load any kube config: ", e>>
MsgStarting == <<"Starting pod watcher...">>
MsgDetected(pod_name, reason, fix) ==
  <<"Detected crash: ", Str(pod_name), ", reason: ", reason, ", suggestion: ">> \o fix
MsgAppliedAsError(pod_name) == <<"Error applying fix: ", Str(pod_name)>>
MsgApplied(pod_name) == <<"Applied fix: deleted pod ", Str(pod_name)>>
MsgApplyError(e) == <<"Error applying fix: ", e>>
MsgStreamError(e) == <<"Watch stream error: ", e>>

\* ------------------------------------------------------------ state
VARIABLES
  AUTO_APPLY,       \* line 11
  USE_GEMINI,       \* line 12
  EVENTS,           \* line 14: the log, a list of entries
  pc,               \* the watcher's position in watch_pods
  retpc,            \* where add_event returns to
  backoff_seconds,  \* line 73; None while the local is unbound
  pod,              \* line 77: the pod being processed, None outside
  reasons,          \* line 80
  ri,               \* line 81: index of the reason being processed
  now,              \* the wall clock
  budget,           \* what the environment may still do: notifications and
                    \* errors left, the notifications to choose from, the
                    \* latest clock value
  rpc,              \* the status handler's position
  ridx,             \* jsonify's index into EVENTS
  resp,             \* the response built so far
  \* history variables
  appended,         \* LogSpec: the entries its appender added, in order
  deletes,          \* the delete calls of the current notification
  notifAppends,     \* add_event calls of the current notification
  prevYield,        \* what the stream did last: none, notification (skipped
                    \* when it had no pod), end, error
  sleeps,           \* sleeps of the current run of consecutive stream errors
  base,             \* backoff_seconds when that run started
  respIds,          \* ids of the entries read into resp
  owed,             \* ids in EVENTS when the current read began, neither
                    \* read nor evicted since
  snaps,            \* the values EVENTS has had during the current read (as
                    \* id sequences) of which respIds is a prefix
  stable            \* EVENTS has not changed since the current read began

wvars == <<pc, retpc, backoff_seconds, pod, reasons, ri, budget, deletes,
           notifAppends, prevYield, sleeps, base>>
lvars == <<EVENTS>>
rvars == <<rpc, ridx, resp, respIds, owed, snaps, stable>>
cvars == <<AUTO_APPLY, USE_GEMINI>>
avars == <<appended>>
vars == <<cvars, avars, lvars, wvars, rvars, now>>

\* ------------------------------------------------------------ add_event
\* The ids of a list of entries, in order, and as a set.
Ids(entries) == [i \in 1 .. Len(entries) |-> entries[i].id]
IdSet(entries) == {entries[i].id : i \in 1 .. Len(entries)}
Range(q) == {q[i] : i \in 1 .. Len(q)}
IsPrefix(p, q) == Len(p) <= Len(q) /\ \A i \in 1 .. Len(p) : p[i] = q[i]

\* The identities of the entries something still refers to: the list, and
\* the records kept of what was read and appended.
LiveIds ==
  IdSet(EVENTS) \cup IdSet(appended) \cup owed \cup Range(respIds)
    \cup UNION {Range(sn) : sn \in snaps}

\* id(entry): an identity no live entry has (CPython reuses the addresses
\* of dead objects).
FreshId == CHOOSE i \in 1 .. Cardinality(LiveIds) + 1 : i \notin LiveIds

\* Line 18: the entry, with the clock as read by time.strftime.
Entry(message, t) == [id |-> FreshId, time |-> t, message |-> message]

\* The record of a read in progress, after the watcher changed EVENTS to ev.
Seen(ev) ==
  IF rpc = "reading" /\ IsPrefix(respIds, Ids(ev)) THEN snaps \cup {Ids(ev)} ELSE snaps
Owed(ev) == owed \cap IdSet(ev)

\* Lines 18-19, then the caller waits at line 21.
AddEvent(message, ret) ==
  /\ \E t \in now .. budget.clock :
       /\ now' = t
       /\ EVENTS' = Append(EVENTS, Entry(message, t))
  /\ notifAppends' = IF pod = None THEN 0 ELSE notifAppends + 1
  /\ snaps' = Seen(EVENTS')
  /\ owed' = Owed(EVENTS')
  /\ stable' = IF rpc = "idle" THEN stable ELSE FALSE
  /\ pc' = "add_event_cap"
  /\ retpc' = ret

\* Lines 21-23.
AddEventCap ==
  /\ pc = "add_event_cap"
  /\ EVENTS' = Capped(EVENTS)
  /\ snaps' = Seen(EVENTS')
  /\ owed' = Owed(EVENTS')
  /\ stable' = IF rpc = "idle" \/ EVENTS' = EVENTS THEN stable ELSE FALSE
  /\ pc' = retpc
  /\ retpc' = "none"
  /\ UNCHANGED <<backoff_seconds, pod, reasons, ri, budget,
                 deletes, notifAppends, prevYield, sleeps, base>>
  /\ UNCHANGED <<cvars, avars, rpc, ridx, resp, respIds, now>>

\* ------------------------------------------------------------ the watcher
\* What every watcher step leaves alone.
ReaderIdle == UNCHANGED <<cvars, avars, rpc, ridx, resp, respIds>>
LogIdle == UNCHANGED <<lvars, snaps, owed, stable, now>>

ConfigErrors == {"ConfigException"}

\* Lines 58-64: one of the two loads succeeds.
LoadConfigOk ==
  /\ pc = "start"
  /\ pc' \in {"loaded_incluster", "loaded_local"}
  /\ UNCHANGED <<retpc, backoff_seconds, pod, reasons, ri, budget, deletes,
                 notifAppends, prevYield, sleeps, base>>
  /\ LogIdle /\ ReaderIdle

\* Lines 61-68: both loads raise; the watcher returns after add_event.
LoadConfigFail ==
  /\ pc = "start"
  /\ \E e \in ConfigErrors : AddEvent(MsgConfigFailed(e), "exit")
  /\ UNCHANGED <<backoff_seconds, pod, reasons, ri, budget, deletes,
                 prevYield, sleeps, base>>
  /\ ReaderIdle

\* Lines 70-72.
StartWatcher ==
  /\ pc \in {"loaded_incluster", "loaded_local"}
  /\ AddEvent(MsgStarting, "enter_loop")
  /\ UNCHANGED <<backoff_seconds, pod, reasons, ri, budget, deletes,
                 prevYield, sleeps, base>>
  /\ ReaderIdle

\* Line 73.
EnterLoop ==
  /\ pc = "enter_loop"
  /\ backoff_seconds' = Some(BACKOFF_START)
  /\ base' = BACKOFF_START
  /\ pc' = "subscribe"
  /\ UNCHANGED <<retpc, pod, reasons, ri, budget, deletes, notifAppends,
                 prevYield, sleeps>>
  /\ LogIdle /\ ReaderIdle

\* Lines 74-76: w.stream(...) is (re)opened.
Subscribe ==
  /\ pc = "subscribe"
  /\ pc' = "streaming"
  /\ UNCHANGED <<retpc, backoff_seconds, pod, reasons, ri, budget, deletes,
                 notifAppends, prevYield, sleeps, base>>
  /\ LogIdle /\ ReaderIdle

\* Line 79: continue takes the next notification of the same stream.
AfterSkipBreak == "subscribe"
AfterSkip == "streaming"

\* Lines 76-80: the stream yields a notification.
Receive ==
  /\ pc = "streaming"
  /\ budget.notifs > 0
  /\ \E ev \in EventsOf(budget.events) :
       IF ev.object = None
       THEN /\ pc' = AfterSkip
            /\ prevYield' = "skipped"
            /\ UNCHANGED <<pod, reasons, ri>>
       ELSE /\ pod' = ev.object
            /\ reasons' = safe_get_container_reason(Get(ev.object))
            /\ ri' = 1
            /\ pc' = "reasons"
            /\ prevYield' = "notification"
  /\ budget' = [budget EXCEPT !.notifs = @ - 1]
  /\ notifAppends' = 0
  /\ sleeps' = <<>>
  /\ base' = Get(backoff_seconds)
  /\ UNCHANGED <<retpc, backoff_seconds, deletes>>
  /\ LogIdle /\ ReaderIdle

\* Line 81: the reasons are exhausted; back to the stream.
ReasonsDone ==
  /\ pc = "reasons"
  /\ ri > Len(reasons)
  /\ pc' = "streaming"
  /\ pod' = None
  /\ reasons' = <<>>
  /\ ri' = 0
  /\ deletes' = <<>>
  /\ notifAppends' = 0
  /\ UNCHANGED <<retpc, backoff_seconds, budget, prevYield, sleeps, base>>
  /\ LogIdle /\ ReaderIdle

\* Lines 81-82: a reason that is not actionable.
SkipReason ==
  /\ pc = "reasons"
  /\ ri <= Len(reasons)
  /\ ~Actionable(reasons[ri])
  /\ ri' = ri + 1
  /\ UNCHANGED <<pc, retpc, backoff_seconds, pod, reasons, budget, deletes,
                 notifAppends, prevYield, sleeps, base>>
  /\ LogIdle /\ ReaderIdle

\* Lines 82-85.
DetectReason ==
  /\ pc = "reasons"
  /\ ri <= Len(reasons)
  /\ Actionable(reasons[ri])
  /\ LET pod_name == PodName(Get(pod))
         fix == suggest_fix(USE_GEMINI, pod_name, reasons[ri])
     IN AddEvent(MsgDetected(pod_name, reasons[ri], fix), "detected")
  /\ UNCHANGED <<backoff_seconds, pod, reasons, ri, budget, deletes,
                 prevYield, sleeps, base>>
  /\ ReaderIdle

\* Line 86, AUTO_APPLY false: on to the next reason.
NoApply ==
  /\ pc = "detected"
  /\ ~ShouldApply(AUTO_APPLY)
  /\ ri' = ri + 1
  /\ pc' = "reasons"
  /\ UNCHANGED <<retpc, backoff_seconds, pod, reasons, budget, deletes,
                 notifAppends, prevYield, sleeps, base>>
  /\ LogIdle /\ ReaderIdle

\* Lines 86-88: the delete call is issued; the watcher waits for it.
DeleteCall ==
  /\ pc = "detected"
  /\ ShouldApply(AUTO_APPLY)
  /\ deletes' = Append(deletes, [name |-> PodName(Get(pod)),
                                 namespace |-> NAMESPACE,
                                 reason |-> reasons[ri]])
  /\ pc' = "deleting"
  /\ UNCHANGED <<retpc, backoff_seconds, pod, reasons, ri, budget,
                 notifAppends, prevYield, sleeps, base>>
  /\ LogIdle /\ ReaderIdle

\* Lines 88-89: the delete call returns.
DeleteOk ==
  /\ pc = "deleting"
  /\ AddEvent(MsgApplied(PodName(Get(pod))), "reasons")
  /\ ri' = ri + 1
  /\ UNCHANGED <<backoff_seconds, pod, reasons, budget, deletes,
                 prevYield, sleeps, base>>
  /\ ReaderIdle

\* Lines 88, 90-91: the delete call raises.
DeleteFail ==
  /\ pc = "deleting"
  /\ \E e \in DeleteErrors :
       IF Caught(e)
       THEN AddEvent(MsgApplyError(e), "reasons") /\ ri' = ri + 1
       ELSE pc' = "exit" /\ UNCHANGED <<retpc, ri, notifAppends>> /\ LogIdle
  /\ UNCHANGED <<backoff_seconds, pod, reasons, budget, deletes,
                 prevYield, sleeps, base>>
  /\ ReaderIdle

\* Lines 76 and 93: the stream ends normally (the 60 s server timeout).
StreamEnd ==
  /\ pc = "streaming"
  /\ backoff_seconds' = Some(BackoffAfterEnd(Get(backoff_seconds)))
  /\ pc' = "subscribe"
  /\ prevYield' = "end"
  /\ sleeps' = <<>>
  /\ base' = Get(backoff_seconds')
  /\ UNCHANGED <<retpc, pod, reasons, ri, budget, deletes, notifAppends>>
  /\ LogIdle /\ ReaderIdle

\* Lines 76, 94-96: the stream raises.
StreamError ==
  /\ pc = "streaming"
  /\ budget.fails > 0
  /\ \E e \in StreamErrors :
       IF Caught(e)
       THEN AddEvent(MsgStreamError(e), "sleep")
       ELSE pc' = "exit" /\ UNCHANGED <<retpc, notifAppends>> /\ LogIdle
  /\ budget' = [budget EXCEPT !.fails = @ - 1]
  /\ UNCHANGED <<backoff_seconds, pod, reasons, ri, deletes, prevYield, sleeps, base>>
  /\ ReaderIdle

\* Line 97: time.sleep(backoff_seconds) begins.
Sleep ==
  /\ pc = "sleep"
  /\ pc' = "sleeping"
  /\ sleeps' = Append(sleeps, Get(backoff_seconds))
  /\ UNCHANGED <<retpc, backoff_seconds, pod, reasons, ri, budget, deletes,
                 notifAppends, prevYield, base>>
  /\ LogIdle /\ ReaderIdle

\* Lines 97-98: the sleep returns and the backoff doubles.
WakeUp ==
  /\ pc = "sleeping"
  /\ backoff_seconds' = Some(NextBackoff(Get(backoff_seconds)))
  /\ pc' = "subscribe"
  /\ prevYield' = "error"
  /\ UNCHANGED <<retpc, pod, reasons, ri, budget, deletes, notifAppends,
                 sleeps, base>>
  /\ LogIdle /\ ReaderIdle

Watcher ==
  \/ LoadConfigOk \/ LoadConfigFail \/ StartWatcher \/ EnterLoop \/ Subscribe
  \/ Receive \/ ReasonsDone \/ SkipReason \/ DetectReason \/ NoApply
  \/ DeleteCall \/ DeleteOk \/ DeleteFail \/ StreamEnd \/ StreamError
  \/ Sleep \/ WakeUp \/ AddEventCap

\* ------------------------------------------------------------ /status
\* What jsonify writes for one entry.
ToJsonMessageOnly(entry) == [message |-> entry.message]
ToJson(entry) == [time |-> entry.time, message |-> entry.message]

\* The list after jsonify(EVENTS) has serialised it: jsonify only reads.
AfterStatusCleared(ev) == <<>>
AfterStatus(ev) == ev

\* Lines 25-27: the handler starts serialising EVENTS.
StatusBegin ==
  /\ rpc = "idle"
  /\ rpc' = "reading"
  /\ ridx' = 0
  /\ resp' = <<>>
  /\ respIds' = <<>>
  /\ owed' = IdSet(EVENTS)
  /\ snaps' = {Ids(EVENTS)}
  /\ stable' = TRUE
  /\ UNCHANGED <<cvars, avars, lvars, wvars, now>>

\* The encoder reads the next element.
StatusStep ==
  /\ rpc = "reading"
  /\ ridx < Len(EVENTS)
  /\ resp' = Append(resp, ToJson(EVENTS[ridx + 1]))
  /\ respIds' = Append(respIds, EVENTS[ridx + 1].id)
  /\ ridx' = ridx + 1
  /\ owed' = owed \ {EVENTS[ridx + 1].id}
  /\ snaps' = {sn \in snaps : IsPrefix(respIds', sn)}
  /\ UNCHANGED <<rpc, stable, cvars, avars, lvars, wvars, now>>

\* The index has reached the length: the response is complete.
StatusEnd ==
  /\ rpc = "reading"
  /\ ridx >= Len(EVENTS)
  /\ rpc' = "done"
  /\ UNCHANGED <<ridx, resp, respIds, owed, snaps, stable, cvars, avars, lvars,
                 wvars, now>>

\* The response has been sent.
StatusReturn ==
  /\ rpc = "done"
  /\ rpc' = "idle"
  /\ ridx' = 0
  /\ resp' = <<>>
  /\ respIds' = <<>>
  /\ owed' = {}
  /\ snaps' = {}
  /\ stable' = TRUE
  /\ EVENTS' = AfterStatus(EVENTS)
  /\ UNCHANGED <<cvars, avars, wvars, now>>

Status == StatusBegin \/ StatusStep \/ StatusEnd \/ StatusReturn

\* ------------------------------------------------------------ specifications
InitWith(at, notifs, fails, events, clock) ==
  /\ AUTO_APPLY \in BOOLEAN
  /\ USE_GEMINI \in BOOLEAN
  /\ EVENTS = <<>>
  /\ pc = at
  /\ retpc = "none"
  /\ backoff_seconds = None
  /\ pod = None
  /\ reasons = <<>>
  /\ ri = 0
  /\ now = 0
  /\ budget = [notifs |-> notifs, fails |-> fails, events |-> events, clock |-> clock]
  /\ rpc = "idle"
  /\ ridx = 0
  /\ resp = <<>>
  /\ appended = <<>>
  /\ deletes = <<>>
  /\ notifAppends = 0
  /\ prevYield = "none"
  /\ sleeps = <<>>
  /\ base = 0
  /\ respIds = <<>>
  /\ owed = {}
  /\ snaps = {}
  /\ stable = TRUE

\* The whole process: the watcher thread and the status handler.  Outside
\* LogSpec a run fits in one second of the clock.
Init == InitWith("start", MaxNotifs, MaxFails, "few", 0)
Next == Watcher \/ Status
Spec == Init /\ [][Next]_vars

\* The same with a Flask handler that keeps running once a request is in.
ServeSpec == Spec /\ WF_vars(Status)

\* The watcher alone.
WatcherInit == InitWith("start", WatchNotifs, WatchFails, "all", 0)
WatcherSpec == WatcherInit /\ [][Watcher]_vars

\* The watcher alone, with enough stream errors to reach the backoff cap.
BackoffInit == InitWith("start", MaxNotifs, MaxStreak, "few", 0)
BackoffSpec == BackoffInit /\ [][Watcher]_vars

\* The steps the watcher thread takes by itself once an error is caught:
\* the cap of add_event, the start and the return of the sleep, the
\* resubscription.
Handling == AddEventCap \/ Sleep \/ WakeUp \/ Subscribe

\* BackoffSpec with a watcher thread that keeps running and a sleep that
\* returns.
FairSpec == BackoffSpec /\ WF_vars(Handling)

\* The classifier alone, called with a pod any of whose fields may be
\* absent: status, container_statuses, a container's state, waiting,
\* terminated, and their reasons (absent or empty).
ReasonValues == {None, Some(""), Some("CrashLoopBackOff"), Some("OOMKilled")}
StateParts == {None} \cup {Some([reason |-> r]) : r \in ReasonValues}
AnyStates == {[waiting |-> w, terminated |-> t] : w \in StateParts, t \in StateParts}
AnyStatuses == {[state |-> None]} \cup {[state |-> Some(st)] : st \in AnyStates}
AnyPods ==
  { [metadata |-> Some([name |-> Some("p1")]), status |-> st] :
      st \in {None, Some([container_statuses |-> None])}
             \cup {Some([container_statuses |-> Some(cs)]) :
                     cs \in SeqsUpTo(AnyStatuses, MaxContainers)} }

Classify ==
  /\ pc = "classify"
  /\ \E p \in AnyPods :
       /\ pod' = Some(p)
       /\ IF BodyRaises(p) /\ \E e \in ParseErrors : ~CaughtParsing(e)
          THEN pc' = "raised" /\ reasons' = <<>>
          ELSE pc' = "classified" /\ reasons' = safe_get_container_reason(p)
  /\ UNCHANGED <<retpc, backoff_seconds, ri, budget, deletes, notifAppends,
                 prevYield, sleeps, base>>
  /\ LogIdle /\ ReaderIdle

ClassifyInit == InitWith("classify", 0, 0, "few", 0)
ClassifySpec == ClassifyInit /\ [][Classify]_vars

\* A single appender calling add_event with messages of its choice, no
\* reader beside it.
LogMessages == {<<"a">>, <<"b">>}

LogAppend ==
  /\ pc = "caller"
  /\ Len(appended) < MaxAppends
  /\ \E m \in LogMessages :
       /\ AddEvent(m, "caller")
       /\ appended' = Append(appended, Entry(m, now'))
  /\ UNCHANGED <<backoff_seconds, pod, reasons, ri, budget, deletes,
                 prevYield, sleeps, base>>
  /\ UNCHANGED <<cvars, rpc, ridx, resp, respIds>>

LogInit == InitWith("caller", 0, 0, "few", MaxTime)
LogNext == LogAppend \/ AddEventCap
LogSpec == LogInit /\ [][LogNext]_vars

\* ------------------------------------------------------------ claims
Last(q) == q[Len(q)]

\* C1: after each add_event call of a single appender has returned, the log
\* holds exactly the most recent min(n, EVENTS_MAX) appended entries, in the
\* order they were appended; so its length is at most EVENTS_MAX and an
\* append to a full log evicts the oldest entry and no other.
C1_RecentRetained ==
  pc = "caller" =>
    LET n == Len(appended)
        k == Min(n, EVENTS_MAX)
    IN /\ Len(EVENTS) = k
       /\ EVENTS = SubSeq(appended, n - k + 1, n)

C1_Witness ==
  /\ pc = "caller"
  /\ Len(appended) = MaxAppends
  /\ Len(EVENTS) = EVENTS_MAX
  /\ Len(appended) >= EVENTS_MAX + 2

\* C2: every response of /status has at most EVENTS_MAX entries, whatever
\* the interleaving of the handler with the watcher's add_event: no read
\* sees the log between the insertion of add_event and its eviction.
C2_StatusBounded == Len(resp) <= EVENTS_MAX

\* C3: a /status read returns the contents the log had at one single
\* instant between the start and the end of the read.
C3_PointInTime == rpc = "done" => respIds \in snaps

\* C4: under concurrent append and read no event is lost, duplicated or
\* torn: every entry of a response is one appended entry, no entry is in it
\* twice, and every entry that was in the log when the read began and has
\* not been evicted is in it.
C4_NoLossNoDup ==
  rpc = "done" =>
    /\ Len(resp) = Len(respIds)
    /\ \A i, j \in 1 .. Len(respIds) : respIds[i] = respIds[j] => i = j
    /\ \A i \in 1 .. Len(EVENTS) :
         EVENTS[i].id \in Range(respIds) => ToJson(EVENTS[i]) \in Range(resp)
    /\ owed = {}

\* The watcher is inside its loop (line 74 onwards).
InLoop ==
  \/ pc \in {"subscribe", "streaming", "reasons", "detected", "deleting",
             "sleep", "sleeping"}
  \/ pc = "add_event_cap" /\ retpc \in {"detected", "reasons", "sleep"}

\* C5: in every state of the watcher in which backoff_seconds is bound it
\* is an integer from 1 to 60, and it is bound throughout the loop.
C5_BackoffRange ==
  /\ backoff_seconds # None => Get(backoff_seconds) \in 1 .. 60
  /\ InLoop => backoff_seconds # None

C5_Witness ==
  /\ pc = "sleeping"
  /\ Get(backoff_seconds) = 60
  /\ Len(sleeps) = MaxStreak

\* C6: starting from a backoff of 1, the i-th of k consecutive stream
\* errors sleeps min(2^(i-1), 60) seconds: 1, 2, 4, 8, 16, 32, 60, 60, ...;
\* each sleep uses the value held before the doubling.
C6_SleepSequence ==
  base = 1 => \A i \in 1 .. Len(sleeps) : sleeps[i] = Min(2 ^ (i - 1), 60)

C6_Witness ==
  /\ base = 1
  /\ Len(sleeps) >= 8
  /\ sleeps[6] = 32
  /\ sleeps[7] = 60
  /\ sleeps[8] = 60

HandlingError ==
  \/ pc \in {"sleep", "sleeping"}
  \/ pc = "add_event_cap" /\ retpc = "sleep"

\* C8: once in its loop the watcher never gives up: after every stream
\* error it resubscribes to the pod stream, and no error of the stream, of
\* the processing of a notification or of a delete call ends it.
C8_NeverGivesUp ==
  /\ HandlingError ~> pc = "streaming"
  /\ [](backoff_seconds # None => pc # "exit")

C8_Witness ==
  /\ pc = "streaming"
  /\ prevYield = "error"
  /\ budget.fails = 0

\* The reasons among the first n that line 82 accepts.
RECURSIVE ActionableAmong(_, _)
ActionableAmong(rs, n) ==
  IF n = 0 THEN 0
  ELSE ActionableAmong(rs, n - 1)
         + (IF rs[n] \in {"CrashLoopBackOff", "OOMKilled"} THEN 1 ELSE 0)

Has(message, piece) == \E i \in 1 .. Len(message) : message[i] = piece
EndsWith(message, tail) ==
  /\ Len(tail) <= Len(message)
  /\ SubSeq(message, Len(message) - Len(tail) + 1, Len(message)) = tail

\* C9: with AUTO_APPLY false no delete call is ever issued, and each
\* actionable reason of a notification appends exactly one event, whose
\* message has the pod name, the reason and the suggestion for them.
C9_NoApplyOneEvent ==
  ~AUTO_APPLY =>
    /\ deletes = <<>>
    /\ pc # "deleting"
    /\ pc = "reasons" => notifAppends = ActionableAmong(reasons, ri - 1)
    /\ (pc = "detected" \/ (pc = "add_event_cap" /\ retpc = "detected")) =>
         LET pod_name == PodName(Get(pod))
             message == Last(EVENTS).message
         IN /\ notifAppends = ActionableAmong(reasons, ri)
            /\ Has(message, Str(pod_name))
            /\ Has(message, reasons[ri])
            /\ EndsWith(message, suggest_fix(USE_GEMINI, pod_name, reasons[ri]))

C9_Witness ==
  /\ ~AUTO_APPLY
  /\ pc = "reasons"
  /\ ri = 2
  /\ reasons = <<"CrashLoopBackOff">>
  /\ PodName(Get(pod)) = Some("p1")
  /\ notifAppends = 1
  /\ Has(Last(EVENTS).message, "p1")
  /\ Has(Last(EVENTS).message, "CrashLoopBackOff")

\* C10: a delete call is issued only with AUTO_APPLY true and for a reason
\* that is CrashLoopBackOff or OOMKilled, and directly after the detection
\* event of that reason of the notification being processed.
C10_DeleteOnlyActionable ==
  /\ deletes # <<>> =>
       /\ AUTO_APPLY
       /\ \A i \in 1 .. Len(deletes) :
            deletes[i].reason \in {"CrashLoopBackOff", "OOMKilled"}
  /\ pc = "deleting" =>
       LET pod_name == PodName(Get(pod))
       IN /\ Last(deletes) = [name |-> pod_name, namespace |-> NAMESPACE,
                              reason |-> reasons[ri]]
          /\ reasons = safe_get_container_reason(Get(pod))
          /\ Last(EVENTS).message =
               MsgDetected(pod_name, reasons[ri],
                           suggest_fix(USE_GEMINI, pod_name, reasons[ri]))

C10_Witness ==
  /\ pc = "deleting"
  /\ Len(deletes) = 2
  /\ reasons[ri] = "OOMKilled"

\* C11: with AUTO_APPLY true a delete call that fails appends, directly
\* after the detection event, an event describing the failure; it is not a
\* stream error: no stream error event, backoff_seconds as it was, no sleep,
\* and the watcher goes on with the next reason of the notification and
\* then with the same stream.
C11_DeleteFailureLocal ==
  [][(/\ pc = "deleting" /\ pc' # "deleting"
      /\ Last(EVENTS').message # <<"Applied fix: deleted pod ", Str(PodName(Get(pod)))>>) =>
       /\ AUTO_APPLY
       /\ Len(EVENTS') = Len(EVENTS) + 1
       /\ EVENTS[Len(EVENTS)].message =
            MsgDetected(PodName(Get(pod)), reasons[ri],
                        suggest_fix(USE_GEMINI, PodName(Get(pod)), reasons[ri]))
       /\ SubSeq(EVENTS', 1, Len(EVENTS)) = EVENTS
       /\ \E e \in {"NotFound", "Forbidden"} :
            Last(EVENTS').message = <<"Error applying fix: ", e>>
       /\ backoff_seconds' = backoff_seconds
       /\ sleeps' = sleeps
       /\ pc' = "add_event_cap" /\ retpc' = "reasons"
       /\ ri' = ri + 1 /\ pod' = pod /\ reasons' = reasons
       /\ budget' = budget]_vars
  /\ [][(pc = "reasons" /\ pc' # "reasons") =>
         IF ri <= Len(reasons) THEN pc' = "add_event_cap" /\ retpc' = "detected"
         ELSE pc' = "streaming" /\ backoff_seconds' = backoff_seconds]_vars

C11_Witness ==
  /\ AUTO_APPLY
  /\ pc = "reasons"
  /\ ri = 2
  /\ Len(reasons) = 2
  /\ Len(EVENTS) = 2
  /\ EVENTS[1].message[1] = "Detected crash: "
  /\ EVENTS[2].message = <<"Error applying fix: ", "Forbidden">>
  /\ Get(backoff_seconds) = 1
  /\ sleeps = <<>>

\* The delete calls line 88 issues for the first n reasons of a pod.
RECURSIVE DeletesFor(_, _, _)
DeletesFor(pod_name, rs, n) ==
  IF n = 0 THEN <<>>
  ELSE IF rs[n] \in {"CrashLoopBackOff", "OOMKilled"}
  THEN Append(DeletesFor(pod_name, rs, n - 1),
              [name |-> pod_name, namespace |-> "boutique", reason |-> rs[n]])
  ELSE DeletesFor(pod_name, rs, n - 1)

\* C12: with AUTO_APPLY true a notification with k actionable reasons
\* issues exactly k delete calls for its pod, one per actionable reason in
\* container order, whether the earlier calls succeeded or failed, and no
\* call is issued again after it failed.
C12_OneDeletePerReason ==
  (AUTO_APPLY /\ pod # None) =>
    LET pod_name == PodName(Get(pod))
    IN /\ pc = "reasons" => deletes = DeletesFor(pod_name, reasons, ri - 1)
       /\ pc = "deleting" => deletes = DeletesFor(pod_name, reasons, ri)
       /\ pc = "detected" => deletes = DeletesFor(pod_name, reasons, ri - 1)
       /\ (pc = "reasons" /\ ri > Len(reasons)) =>
            Len(deletes) = ActionableAmong(reasons, Len(reasons))

C12_Witness ==
  /\ AUTO_APPLY
  /\ pc = "deleting"
  /\ ri = 2
  /\ reasons = <<"CrashLoopBackOff", "OOMKilled">>
  /\ Len(deletes) = 2
  /\ deletes[1].reason = "CrashLoopBackOff"
  /\ deletes[2].reason = "OOMKilled"
  /\ deletes[1].name = deletes[2].name
  /\ Len(EVENTS) >= 2
  /\ EVENTS[Len(EVENTS) - 1].message = <<"Error applying fix: ", "NotFound">>

\* The watcher is on the fatal configuration path (lines 65-68).
Fatal == pc = "exit" \/ (pc = "add_event_cap" /\ retpc = "exit")

\* C13: the watcher leaves through the fatal configuration path only when
\* both config loads failed; the log then holds exactly one event, the
\* failure; the watcher has not subscribed, deleted or appended 'Starting
\* pod watcher...'; and /status can still be read and returns that event.
\* After a successful local load that follows a failed in-cluster load the
\* log has no failure event and the watcher goes on into its loop.
C13_FatalConfigPath ==
  /\ Fatal =>
       /\ Len(EVENTS) = 1
       /\ EVENTS[1].message = <<"Failed to load any kube config: ", "ConfigException">>
       /\ backoff_seconds = None
       /\ prevYield = "none"
       /\ deletes = <<>> /\ pod = None
       /\ budget.notifs = MaxNotifs /\ budget.fails = MaxFails
       /\ ENABLED Status
       /\ (pc = "exit" /\ rpc = "done") =>
            resp \in {<<>>, <<[time |-> EVENTS[1].time, message |-> EVENTS[1].message]>>}
  /\ ~Fatal =>
       \A i \in 1 .. Len(EVENTS) :
         EVENTS[i].message[1] # "Failed to load any kube config: "
  /\ pc \in {"loaded_incluster", "loaded_local"} => EVENTS = <<>>
  /\ (pc = "add_event_cap" /\ retpc = "enter_loop") =>
       (Len(EVENTS) = 1 /\ EVENTS[1].message = <<"Starting pod watcher...">>)
  /\ (pc = "start" \/ backoff_seconds = None) => budget.notifs = MaxNotifs

C13_Witness ==
  /\ pc = "exit"
  /\ rpc = "done"
  /\ Len(resp) = 1
  /\ resp[1].message = <<"Failed to load any kube config: ", "ConfigException">>
  /\ EVENTS # <<>>

\* C14: serving /status never changes the log: every step of the handler
\* leaves EVENTS as it was, and the only steps that change EVENTS are those
\* of add_event (its append and its cap).
C14_StatusReadOnly ==
  /\ [][Status => EVENTS' = EVENTS]_vars
  /\ [][EVENTS' # EVENTS =>
         /\ rpc' = rpc /\ resp' = resp
         /\ \/ (pc' = "add_event_cap" /\ Len(EVENTS') = Len(EVENTS) + 1
                 /\ SubSeq(EVENTS', 1, Len(EVENTS)) = EVENTS)
            \/ (pc = "add_event_cap" /\ Len(EVENTS) > EVENTS_MAX
                 /\ EVENTS' = SubSeq(EVENTS, Len(EVENTS) - EVENTS_MAX + 1,
                                     Len(EVENTS)))]_vars

C14_Witness ==
  /\ rpc = "done"
  /\ stable
  /\ Len(EVENTS) = EVENTS_MAX
  /\ Len(resp) = EVENTS_MAX

\* The watcher is blocked: waiting for the stream, sleeping in backoff,
\* waiting for a delete call, or gone through the fatal configuration path.
Blocked == pc \in {"streaming", "sleeping", "deleting", "exit"}

\* C15: in every state of the watcher a /status read is possible and
\* completes: the handler always has a step to take, a read that has begun
\* reaches its end, and a read during which the log did not change (as when
\* the watcher is blocked on the stream, asleep, in a delete call or gone)
\* returns the log as it is, empty or not.
C15_StatusResponsive ==
  /\ [](ENABLED Status)
  /\ [](Blocked /\ rpc = "idle" => ENABLED StatusBegin)
  /\ (rpc = "reading") ~> (rpc = "done")
  /\ []((rpc = "done" /\ stable) =>
          resp = [i \in 1 .. Len(EVENTS) |->
                    [time |-> EVENTS[i].time, message |-> EVENTS[i].message]])

C15_Witness ==
  /\ pc = "sleeping"
  /\ rpc = "done"
  /\ stable
  /\ Len(resp) = EVENTS_MAX
  /\ resp[EVENTS_MAX].message[1] = "Watch stream error: "

\* The containers of a pod.
NumContainers(p) ==
  IF p.status = None \/ Get(p.status).container_statuses = None THEN 0
  ELSE Len(Get(Get(p.status).container_statuses))

\* C16: _safe_get_container_reason is total and pure: for a pod with any
\* of status, container_statuses, state, waiting, terminated and reason
\* absent it raises nothing and returns a sequence of non-empty reasons no
\* longer than the pod has containers, and the call changes neither the log
\* nor backoff_seconds nor the configuration.
C16_ClassifierTotalPure ==
  /\ [](pc # "raised")
  /\ [](pc = "classified" =>
          /\ Len(reasons) <= NumContainers(Get(pod))
          /\ \A i \in 1 .. Len(reasons) : reasons[i] \in {"CrashLoopBackOff", "OOMKilled"})
  /\ [][pc' = "classified" =>
         UNCHANGED <<EVENTS, backoff_seconds, AUTO_APPLY, USE_GEMINI, deletes, sleeps>>]_vars

C16_Witness ==
  /\ pc = "classified"
  /\ NumContainers(Get(pod)) = 2
  /\ Get(Get(pod).status).container_statuses =
       Some(<<[state |-> None],
              [state |-> Some([waiting |-> Some([reason |-> Some("CrashLoopBackOff")]),
                               terminated |-> Some([reason |-> Some("OOMKilled")])])]>>)
  /\ reasons = <<"CrashLoopBackOff">>

\* C17: the actionable reasons are exactly CrashLoopBackOff and OOMKilled:
\* the watcher detects (computes a suggestion, appends, and with AUTO_APPLY
\* deletes) for a reason if and only if it is one of the two, so a
\* notification whose reasons are all outside the set appends nothing and
\* issues no delete call, with AUTO_APPLY true or false.
C17_ExactlyTwoActionable ==
  pod # None =>
    /\ (pc \in {"detected", "deleting"} \/ (pc = "add_event_cap" /\ retpc = "detected")) =>
         reasons[ri] \in {"CrashLoopBackOff", "OOMKilled"}
    /\ pc = "reasons" =>
         (notifAppends = 0 <=> ActionableAmong(reasons, ri - 1) = 0)
    /\ ActionableAmong(reasons, Len(reasons)) = 0 =>
         /\ pc = "reasons"
         /\ notifAppends = 0
         /\ deletes = <<>>

C17_Witness ==
  /\ AUTO_APPLY
  /\ pc = "reasons"
  /\ reasons = <<"ImagePullBackOff", "ImagePullBackOff">>
  /\ ri = 3
  /\ notifAppends = 0
  /\ deletes = <<>>

\* C18 as stated: every classified reason that is not actionable is
\* recorded: once the watcher has processed such a reason, the newest event
\* of the log is an event for it.
C18_InformationalRecorded ==
  (/\ pc = "reasons" /\ ri > 1
   /\ reasons[ri - 1] \notin {"CrashLoopBackOff", "OOMKilled"}) =>
    /\ notifAppends > 0
    /\ EVENTS # <<>>
    /\ Has(Last(EVENTS).message, reasons[ri - 1])

\* C18 amended: a classified reason that is not actionable is not recorded:
\* the watcher passes over it to the next reason and leaves the log, the
\* delete calls and backoff_seconds as they were.
C18_NonActionableIgnored ==
  [][(/\ pc = "reasons" /\ ri <= Len(reasons)
      /\ reasons[ri] \notin {"CrashLoopBackOff", "OOMKilled"}) =>
       /\ EVENTS' = EVENTS
       /\ pc' = "reasons" /\ ri' = ri + 1
       /\ notifAppends' = notifAppends
       /\ deletes' = deletes
       /\ backoff_seconds' = backoff_seconds]_vars

C18_Witness ==
  /\ pc = "reasons"
  /\ reasons = <<"ImagePullBackOff", "OOMKilled">>
  /\ ri = 2
  /\ notifAppends = 0
  /\ Len(EVENTS) = 1
  /\ EVENTS[1].message = <<"Starting pod watcher...">>

\* The connection state of the watcher: Disconnected up to line 73,
\* Retrying while a stream error is handled (lines 94-98), Exited after a
\* return or an escaped exception, Streaming otherwise.
ConnState ==
  IF \/ pc \in {"start", "loaded_incluster", "loaded_local", "enter_loop"}
     \/ (pc = "add_event_cap" /\ retpc \in {"enter_loop", "exit"})
  THEN "Disconnected"
  ELSE IF HandlingError THEN "Retrying"
  ELSE IF pc = "exit" THEN "Exited"
  ELSE "Streaming"

\* C19: the watcher starts Disconnected; it becomes Streaming only from
\* line 73, after a config load succeeded and the start event was appended;
\* it goes from Streaming to Retrying only by a stream error, whose event
\* it appends; from Retrying it always comes back to Streaming, after the
\* sleep; it never comes back to Disconnected, and once in the loop it is
\* Streaming or Retrying for ever.  The only exit is the fatal
\* configuration path, taken from Disconnected.
C19_ConnectionStates ==
  /\ ConnState = "Disconnected"
  /\ [][ConnState' # ConnState =>
         \/ /\ ConnState = "Disconnected" /\ ConnState' = "Streaming"
            /\ pc = "enter_loop"
            /\ EVENTS # <<>> /\ EVENTS[1].message = <<"Starting pod watcher...">>
         \/ /\ ConnState = "Disconnected" /\ ConnState' = "Exited"
            /\ backoff_seconds = None
            /\ Last(EVENTS).message[1] = "Failed to load any kube config: "
         \/ /\ ConnState = "Streaming" /\ ConnState' = "Retrying"
            /\ pc = "streaming"
            /\ Last(EVENTS').message[1] = "Watch stream error: "
            /\ budget'.fails = budget.fails - 1
         \/ /\ ConnState = "Retrying" /\ ConnState' = "Streaming"
            /\ pc = "sleeping" /\ pc' = "subscribe"]_vars
  /\ (ConnState = "Retrying") ~> (ConnState = "Streaming")
  /\ [](backoff_seconds # None => ConnState \in {"Streaming", "Retrying"})

C19_Witness ==
  /\ ConnState = "Streaming"
  /\ pc = "streaming"
  /\ prevYield = "error"
  /\ Get(backoff_seconds) = 4

\* The first pieces of the messages the watcher appends (lines 66, 72, 85,
\* 89, 91, 96).
MessageKinds ==
  {"Failed to load any kube config: ", "Starting pod watcher...",
   "Detected crash: ", "Applied fix: deleted pod ", "Error applying fix: ",
   "Watch stream error: "}

\* C20: suggest_fix never fails, with USE_GEMINI true or false: every
\* actionable reason the watcher has processed got its detection event,
\* whose suggestion is a text that names the pod and the reason, and no
\* event of the log is of another kind than the watcher's six (none
\* describes a failed suggestion).
C20_SuggestionNeverFails ==
  /\ \A i \in 1 .. Len(EVENTS) : EVENTS[i].message[1] \in MessageKinds
  /\ (pod # None /\ pc = "reasons") => notifAppends >= ActionableAmong(reasons, ri - 1)
  /\ (pc = "detected" \/ (pc = "add_event_cap" /\ retpc = "detected")) =>
       LET message == Last(EVENTS).message
           text == SubSeq(message, 6, Len(message))
       IN /\ SubSeq(message, 1, 5) =
               <<"Detected crash: ", Str(PodName(Get(pod))), ", reason: ",
                 reasons[ri], ", suggestion: ">>
          /\ text # <<>>
          /\ text[1] = (IF USE_GEMINI THEN "Gemini suggests restarting pod "
                                      ELSE "Mock fix: restart pod ")
          /\ Has(text, Str(PodName(Get(pod))))
          /\ Has(text, reasons[ri])

C20_Witness ==
  /\ USE_GEMINI
  /\ pc = "detected"
  /\ reasons[ri] = "OOMKilled"
  /\ PodName(Get(pod)) = Some("unknown")
  /\ Last(EVENTS).message =
       <<"Detected crash: ", "unknown", ", reason: ", "OOMKilled", ", suggestion: ",
         "Gemini suggests restarting pod ", "unknown", " due to ", "OOMKilled", ".">>

\* C21: a stream error appends exactly one event, which describes it, and
\* this before the sleep begins; the sleep uses backoff_seconds as it was;
\* backoff_seconds doubles (up to 60) when the sleep has returned, and the
\* resubscription comes after the doubling.
C21_ErrorThenSleepThenDouble ==
  /\ [][(pc = "streaming" /\ HandlingError') =>
         /\ Len(EVENTS') = Len(EVENTS) + 1
         /\ SubSeq(EVENTS', 1, Len(EVENTS)) = EVENTS
         /\ Last(EVENTS').message[1] = "Watch stream error: "
         /\ Last(EVENTS').message[2] \in {"ConnectionReset", "Forbidden"}
         /\ sleeps' = sleeps /\ backoff_seconds' = backoff_seconds]_vars
  /\ [][(HandlingError /\ HandlingError') =>
         /\ Len(EVENTS') <= Len(EVENTS)
         /\ Last(EVENTS').message = Last(EVENTS).message
         /\ backoff_seconds' = backoff_seconds]_vars
  /\ [][(pc = "sleep" /\ pc' # "sleep") =>
         /\ pc' = "sleeping"
         /\ sleeps' = Append(sleeps, Get(backoff_seconds))
         /\ Last(EVENTS).message[1] = "Watch stream error: "
         /\ EVENTS' = EVENTS]_vars
  /\ [][(pc = "sleeping" /\ pc' # "sleeping") =>
         /\ pc' = "subscribe"
         /\ Get(backoff_seconds') = Min(2 * Last(sleeps), 60)
         /\ sleeps' = sleeps
         /\ EVENTS' = EVENTS]_vars
  /\ [][(pc = "subscribe" /\ pc' # "subscribe") =>
         /\ pc' = "streaming"
         /\ backoff_seconds' = backoff_seconds
         /\ EVENTS' = EVENTS]_vars

C21_Witness ==
  /\ pc = "streaming"
  /\ prevYield = "error"
  /\ sleeps = <<1, 2>>
  /\ Get(backoff_seconds) = 4
  /\ Len(EVENTS) = EVENTS_MAX
  /\ \A i \in 1 .. Len(EVENTS) : EVENTS[i].message[1] = "Watch stream error: "

\* C22: a notification without a pod object is a no-op: the step that
\* receives it appends no event, issues no delete call, raises nothing (the
\* watcher neither leaves the stream nor enters the except block) and
\* leaves backoff_seconds alone; the watcher is then back at the same
\* stream, ready for its next notification.
C22_AbsentPodSkipped ==
  /\ [][(budget'.notifs < budget.notifs /\ pod' = None) =>
         /\ pc = "streaming" /\ pc' = "streaming"
         /\ EVENTS' = EVENTS
         /\ deletes' = deletes /\ deletes = <<>>
         /\ backoff_seconds' = backoff_seconds
         /\ budget'.fails = budget.fails
         /\ reasons' = <<>>]_vars
  /\ [](prevYield = "skipped" =>
          /\ pod = None /\ deletes = <<>> /\ notifAppends = 0
          /\ pc \notin {"reasons", "detected", "deleting", "exit"}
          /\ pc = "add_event_cap" => retpc = "sleep")

C22_Witness ==
  /\ prevYield = "skipped"
  /\ pc = "streaming"
  /\ budget.notifs = 0
  /\ budget.fails = WatchFails
  /\ Len(EVENTS) = 1
  /\ EVENTS[1].message = <<"Starting pod watcher...">>

\* The reference of C23.  A part of a state carries a reason when it is
\* populated and its reason is a non-empty text.
Carries(part) ==
  /\ part # <<>>
  /\ part[1].reason # <<>>
  /\ part[1].reason[1] # ""

\* The containers of a pod that contribute, in container order, and what
\* each contributes.
Contributes(c) ==
  /\ c.state # <<>>
  /\ (Carries(c.state[1].waiting) \/ Carries(c.state[1].terminated))

Contribution(c) ==
  IF Carries(c.state[1].waiting)
  THEN c.state[1].waiting[1].reason[1]
  ELSE c.state[1].terminated[1].reason[1]

RECURSIVE Reference(_, _)
Reference(cs, n) ==
  IF n = 0 THEN <<>>
  ELSE IF Contributes(cs[n])
  THEN Append(Reference(cs, n - 1), Contribution(cs[n]))
  ELSE Reference(cs, n - 1)

\* C23: the result of _safe_get_container_reason is, in container order,
\* for each container its waiting reason if waiting is populated and
\* carries one, else its terminated reason if terminated is populated and
\* carries one (also when waiting is populated without a reason), else
\* nothing; no container gives more than one reason.
C23_ClassifierReference ==
  pc = "classified" =>
    LET p == Get(pod)
        cs == IF NumContainers(p) = 0 THEN <<>>
              ELSE p.status[1].container_statuses[1]
    IN /\ reasons = Reference(cs, Len(cs))
       /\ Len(reasons) = Cardinality({i \in 1 .. Len(cs) : Contributes(cs[i])})

C23_Witness ==
  /\ pc = "classified"
  /\ NumContainers(Get(pod)) = 2
  /\ Get(Get(pod).status).container_statuses =
       Some(<<[state |-> Some([waiting |-> Some([reason |-> None]),
                               terminated |-> Some([reason |-> Some("OOMKilled")])])],
              [state |-> Some([waiting |-> Some([reason |-> Some("CrashLoopBackOff")]),
                               terminated |-> None])]>>)
  /\ reasons = <<"OOMKilled", "CrashLoopBackOff">>

\* C24: with AUTO_APPLY true each actionable reason appends two adjacent
\* events, its detection and then one outcome: 'Applied fix' when the
\* delete call returned, 'Error applying fix' when it raised; while the
\* call is in progress the detection is the newest event, the outcome not
\* yet appended.
C24_DetectionThenOutcome ==
  /\ []((AUTO_APPLY /\ pod # None) =>
          /\ pc = "reasons" => notifAppends = 2 * ActionableAmong(reasons, ri - 1)
          /\ pc = "deleting" =>
               /\ notifAppends = 2 * ActionableAmong(reasons, ri) - 1
               /\ Last(EVENTS).message[1] = "Detected crash: "
          /\ (/\ pc = "reasons" /\ ri > 1
              /\ reasons[ri - 1] \in {"CrashLoopBackOff", "OOMKilled"}) =>
               /\ Len(EVENTS) >= 2
               /\ EVENTS[Len(EVENTS) - 1].message[1] = "Detected crash: "
               /\ EVENTS[Len(EVENTS) - 1].message[4] = reasons[ri - 1]
               /\ Last(EVENTS).message[1] \in {"Applied fix: deleted pod ",
                                                "Error applying fix: "})
  /\ [][DeleteOk =>
         /\ Len(EVENTS') = Len(EVENTS) + 1
         /\ SubSeq(EVENTS', 1, Len(EVENTS)) = EVENTS
         /\ Last(EVENTS').message =
              <<"Applied fix: deleted pod ", Str(PodName(Get(pod)))>>]_vars
  /\ [][DeleteFail =>
         /\ Len(EVENTS') = Len(EVENTS) + 1
         /\ SubSeq(EVENTS', 1, Len(EVENTS)) = EVENTS
         /\ Last(EVENTS').message[1] = "Error applying fix: "
         /\ Last(EVENTS').message[2] \in {"NotFound", "Forbidden"}]_vars
  /\ [][(pc = "deleting" /\ pc' # "deleting") => (DeleteOk \/ DeleteFail)]_vars

C24_Witness ==
  /\ AUTO_APPLY
  /\ pc = "reasons"
  /\ ri = 3
  /\ reasons = <<"ImagePullBackOff", "CrashLoopBackOff">>
  /\ notifAppends = 2
  /\ Len(EVENTS) = 2
  /\ EVENTS[1].message[1] = "Detected crash: "
  /\ EVENTS[2].message = <<"Applied fix: deleted pod ", "p1">>

\* C25: when the stream ends normally the watcher sets backoff_seconds to 1
\* and is at the resubscription at once: the step appends no event and
\* starts no sleep; and no other step of the watcher brings a bound
\* backoff_seconds back to 1 from another value.
C25_NormalEndResets ==
  /\ [][(pc = "streaming" /\ pc' = "subscribe") =>
         /\ backoff_seconds' = <<1>>
         /\ EVENTS' = EVENTS
         /\ budget' = budget
         /\ prevYield' = "end"]_vars
  /\ [][(pc = "streaming" /\ pc' \notin {"streaming", "subscribe"}) =>
         \/ (pc' = "reasons" /\ budget'.notifs < budget.notifs)
         \/ (HandlingError' /\ budget'.fails < budget.fails)]_vars
  /\ [][(backoff_seconds # <<>> /\ backoff_seconds # <<1>>
         /\ backoff_seconds' = <<1>>) =>
         (pc = "streaming" /\ pc' = "subscribe")]_vars
  /\ [](prevYield = "end" /\ pc \in {"subscribe", "streaming"} =>
          (backoff_seconds = <<1>> /\ sleeps = <<>>))

C25_Witness ==
  /\ prevYield = "end"
  /\ pc = "subscribe"
  /\ backoff_seconds = <<1>>
  /\ budget.fails = MaxStreak - 3
  /\ budget.notifs = MaxNotifs
  /\ Len(EVENTS) = EVENTS_MAX
  /\ \A i \in 1 .. Len(EVENTS) : EVENTS[i].message[1] = "Watch stream error: "

\* C26: every delete call targets the configured namespace and a pod name
\* that the notification being processed carried: the pod of that
\* notification has metadata with a name, and the call is for that name.
C26_DeleteCarriedName ==
  \A i \in 1 .. Len(deletes) :
    /\ deletes[i].namespace = "boutique"
    /\ pod # <<>>
    /\ pod[1].metadata # <<>>
    /\ pod[1].metadata[1].name # <<>>
    /\ deletes[i].name = pod[1].metadata[1].name

====
